---- MODULE Spec2Model ----
(***************************************************************************)
(* Model of src/background.js: the service worker of the "Image as PNG     *)
(* Downloader" extension.  One pipeline instance (an activation of the     *)
(* async function handleContextMenuClick) exists per context-menu click;   *)
(* every await of the source is a suspension point and every action below  *)
(* is the code that runs between two suspension points.                    *)
(***************************************************************************)
EXTENDS Integers, Sequences, FiniteSets, TLC

\* ------------------------------------------------------------------ bounds
\* Number of context-menu click events delivered to the listener.
MaxClicks == 2
\* Number of runtime.onInstalled events delivered to the listener.
MaxInstalls == 5
\* Greatest width and height of the bitmaps createCanvasFromBitmap is given.
MaxDim == 2
\* Math.random() is modelled as k / RandDen for k in 0 .. RandDen - 1.
RandDen == 4

Invocations == 1..MaxClicks
Installs == 1..MaxInstalls

\* ------------------------------------------------------------------ constants
CONTEXT_MENU_ID == "download-image-as-png"
CONTEXT_MENU_TITLE == "Download image as PNG"

\* ------------------------------------------------------------------ inputs
\* A property the event object does not carry (JavaScript undefined).
Undefined == "<undefined>"
\* A local variable that has not been assigned yet.
Unset == [unset |-> TRUE]

MenuItemIds == {CONTEXT_MENU_ID, "another-menu-item"}
ImageUrls == {"https://a.test/photo.jpg", "https://b.test/icon.webp"}
SrcUrls == ImageUrls \cup {Undefined, ""}
ClickInfos == [menuItemId : MenuItemIds, srcUrl : SrcUrls]
Tabs == {[id |-> 7], [id |-> 9]}

\* !v of JavaScript for the values an event property takes here.
Falsy(v) == v = Undefined \/ v = ""

\* What the server answers for a locator: a status line, and for a good
\* status a body that is an image or is not one.
Responses(url) ==
    { [ok |-> TRUE, status |-> 200, statusText |-> "OK", url |-> url],
      [ok |-> FALSE, status |-> 404, statusText |-> "Not Found", url |-> url] }
Bodies(response) ==
    { [decodable |-> TRUE, from |-> response.url],
      [decodable |-> FALSE, from |-> response.url] }

\* Errors the platform raises (the code constructs none of these).
NetworkError == [name |-> "TypeError", message |-> "Failed to fetch"]
BodyReadError == [name |-> "TypeError", message |-> "network error"]
DecodeError ==
    [name |-> "InvalidStateError",
     message |-> "The source image could not be decoded."]
CanvasError ==
    [name |-> "TypeError",
     message |-> "Cannot set properties of null (setting 'fillStyle')"]
EncodeError == [name |-> "EncodingError", message |-> "Encoding failed."]
ReaderError ==
    [name |-> "NotReadableError", message |-> "The blob could not be read."]

\* Clock readings (getMonth() is 0-indexed) and random draws k (Math.random()
\* = k / RandDen); the pipeline is run with the least draw on one day and the
\* greatest on another.
Clocks == { [year |-> 2024, month |-> 0, date |-> 5],
            [year |-> 2025, month |-> 11, date |-> 31] }
RandomDraws == 0..(RandDen - 1)
FilenameInputs ==
    { [now |-> [year |-> 2024, month |-> 0, date |-> 5], k |-> 0],
      [now |-> [year |-> 2025, month |-> 11, date |-> 31], k |-> RandDen - 1] }

\* What the download subsystem reports after the handoff call.
DownloadReports == {"complete", "interrupted", "cancelled"}

\* ------------------------------------------------------------------ state
VARIABLES
    frame,          \* per invocation: the activation of handleContextMenuClick
    stages,         \* per invocation: the stages begun and those completed
    fetchCalls,     \* per invocation: the arguments of its fetch() calls
    consoleLog,     \* per invocation: the errors given to console.error
    downloads,      \* per invocation: its chrome.downloads.download() calls
    downloadState,  \* per invocation: what the download subsystem reported
    notifications,  \* per invocation: its chrome.scripting.executeScript() calls
    registry,       \* the host's context-menu registry of this extension
    installs,       \* per onInstalled event: the activation of its listener
    menuCalls,      \* the chrome.contextMenus calls issued, in order
    filenameCall,   \* a call of generatePngFilename studied on its own
    canvasCall      \* a call of createCanvasFromBitmap studied on its own

pipelineVars ==
    <<frame, stages, fetchCalls, consoleLog, downloads, downloadState,
      notifications>>
menuVars == <<registry, installs, menuCalls>>
pureVars == <<filenameCall, canvasCall>>
vars == <<pipelineVars, menuVars, pureVars>>

\* The stages of one invocation, in source order.
StageOrder ==
    <<"fetch", "blob", "decode", "composite", "encode", "dataUrl", "download">>

IdleFrame ==
    [pc |-> "idle", info |-> Unset, tab |-> Unset, response |-> Unset,
     originalBlob |-> Unset, imageBitmap |-> Unset, canvas |-> Unset,
     pngBlob |-> Unset, error |-> Unset, failedAt |-> "none"]

\* ------------------------------------------------------------------ helpers
\* Mutant: the event is tested for its identifier only.
QualifiesIdOnly(info) == info.menuItemId = CONTEXT_MENU_ID

\* Line 102, negated: the event enters the pipeline.
Qualifies(info) ==
    ~(info.menuItemId # CONTEXT_MENU_ID \/ Falsy(info.srcUrl))

\* Mutant: the status of the response is not looked at.
BadStatusIgnored(response) == FALSE

\* Line 41: the status test on the response.
BadStatus(response) == ~response.ok

\* Line 42: the error built for a bad status.
StatusError(response) ==
    [name |-> "Error",
     message |-> "Failed to fetch image: " \o response.statusText]

\* Line 47: createImageBitmap, by what it produces for a blob.
CreateImageBitmap(blob) == [width |-> 10, height |-> 10, decodedFrom |-> blob]

\* Mutant: the bitmap is drawn on the new surface without the white fill.
CreateCanvasWithoutFill(imgBitmap) ==
    [width |-> imgBitmap.width, height |-> imgBitmap.height,
     fillStyle |-> "none", drawn |-> imgBitmap, at |-> <<0, 0>>]

\* Lines 16-30: the surface has the bitmap's size, is filled white and then
\* has the bitmap drawn at the origin.
CreateCanvasFromBitmap(imgBitmap) ==
    [width |-> imgBitmap.width, height |-> imgBitmap.height,
     fillStyle |-> "white", drawn |-> imgBitmap, at |-> <<0, 0>>]

\* Line 53: canvas.convertToBlob({ type: 'image/png' }).
ConvertToBlob(canvas) == [type |-> "image/png", encodes |-> canvas]

\* Lines 69-73: reader.result of readAsDataURL for a blob.
ReadAsDataURL(blob) ==
    [scheme |-> "data", mediaType |-> blob.type, base64 |-> blob.encodes]

\* Mutant: the catch throws a new error of its own in place of the caught one.
RethrowWrapped(error) == [name |-> "Error", message |-> "Image conversion failed"]

\* Lines 55-58: the catch of convertImageToPngBlob throws what it caught.
Rethrow(error) == error

\* Line 72: the error built when the read is aborted.
AbortError ==
    [name |-> "Error", message |-> "Blob to Data URL conversion aborted."]

\* String(n).padStart(2, '0').
PadStart2(n) == IF Len(ToString(n)) < 2 THEN "0" \o ToString(n) ELSE ToString(n)

\* Mutant: the draw is scaled to six digits without the offset.
RandomNumberNoOffset(k) == (k * 1000000) \div RandDen

\* Line 90: Math.floor(100000 + Math.random() * 900000), Math.random() = k/RandDen.
RandomNumber(k) == 100000 + ((k * 900000) \div RandDen)

\* Lines 82-93.
GeneratePngFilename(now, k) ==
    "image-" \o ToString(now.year) \o PadStart2(now.month + 1)
        \o PadStart2(now.date) \o "-" \o ToString(RandomNumber(k)) \o ".png"

\* Mutant: the download is started without the save-location prompt.
DownloadOptionsSilent(dataUrl, filename) ==
    [url |-> dataUrl, filename |-> filename, saveAs |-> FALSE]

\* Lines 116-120: the argument of chrome.downloads.download.
DownloadOptions(dataUrl, filename) ==
    [url |-> dataUrl, filename |-> filename, saveAs |-> TRUE]

\* Mutant: the alert names the error's type instead of quoting its message.
AlertMessageByName(error) ==
    "Failed to convert and download image: " \o error.name

\* Line 129: the message of the alert.
AlertMessage(error) ==
    "Failed to convert and download image: " \o error.message

\* Lines 126-130: the argument of chrome.scripting.executeScript.
ExecuteScriptOptions(tab, error) ==
    [target |-> [tabId |-> tab.id], func |-> "alert",
     args |-> <<AlertMessage(error)>>]

\* Mutant: the converted blob is kept in a module-level variable that the
\* first invocation to convert fills and every invocation reads.
PngBlobShared(i) ==
    IF frame[1].pngBlob # Unset THEN frame[1].pngBlob ELSE frame[i].pngBlob

\* The PNG blob the handler passes to blobToDataURL (line 112): its own local.
PngBlobOf(i) == frame[i].pngBlob

Begin(i, stage) == [stages EXCEPT ![i].started = Append(@, stage)]
Complete(st, i, stage) == [st EXCEPT ![i].finished = Append(@, stage)]

\* ------------------------------------------------------------------ menu registry
\* The entry chrome.contextMenus.create is given (lines 139-143).
MenuEntry ==
    [id |-> CONTEXT_MENU_ID, title |-> CONTEXT_MENU_TITLE,
     contexts |-> <<"image">>]

HasId(reg, id) == \E n \in 1..Len(reg) : reg[n].id = id

\* chrome.contextMenus.create: a duplicate identifier is refused and reported
\* through chrome.runtime.lastError, anything else is added.
ContextMenusCreate(reg, entry) ==
    IF HasId(reg, entry.id)
    THEN [registry |-> reg, lastError |-> TRUE]
    ELSE [registry |-> Append(reg, entry), lastError |-> FALSE]

\* chrome.contextMenus.update(id, { title }): the title of the entry changes
\* in place.
ContextMenusUpdate(reg, id, title) ==
    [n \in 1..Len(reg) |->
        IF reg[n].id = id THEN [reg[n] EXCEPT !.title = title] ELSE reg[n]]

\* Mutant: the callback updates whatever create reported.
ShouldUpdateAlways(lastError) == TRUE

\* Line 144: the callback updates only when create reported an error.
ShouldUpdate(lastError) == lastError

\* ------------------------------------------------------------------ Init
InitPipeline ==
    /\ frame = [i \in Invocations |-> IdleFrame]
    /\ stages = [i \in Invocations |-> [started |-> <<>>, finished |-> <<>>]]
    /\ fetchCalls = [i \in Invocations |-> <<>>]
    /\ consoleLog = [i \in Invocations |-> <<>>]
    /\ downloads = [i \in Invocations |-> <<>>]
    /\ downloadState = [i \in Invocations |-> "none"]
    /\ notifications = [i \in Invocations |-> <<>>]
    /\ installs = [k \in Installs |-> [pc |-> "idle", lastError |-> FALSE]]
    /\ menuCalls = <<>>

\* No function is being studied on its own.
NoCall == [pc |-> "none"]
InitPure == filenameCall = NoCall /\ canvasCall = NoCall

\* The pipeline is studied with the menu entry registered: the host delivers
\* clicks on this extension's entry only while the entry exists.
Init == InitPipeline /\ InitPure /\ registry = <<MenuEntry>>

\* Registration is studied from a registry that holds the entry (a reload,
\* an update) or does not (first install).
InitMenu == InitPipeline /\ InitPure /\ registry \in {<<>>, <<MenuEntry>>}

\* ------------------------------------------------------------------ failure paths
\* Lines 123-131: the catch of handleContextMenuClick; fr is the frame as the
\* failing code left it.
HandlerCatch(i, fr, error, stage) ==
    /\ frame' = [frame EXCEPT ![i] =
                    [fr EXCEPT !.pc = "returned", !.error = error,
                               !.failedAt = stage]]
    /\ notifications' = [notifications EXCEPT ![i] =
                            Append(@, ExecuteScriptOptions(frame[i].tab, error))]

\* Lines 55-58, then the rejected await of line 108.
ConvertCatch(i, fr, error, stage) ==
    /\ consoleLog' = [consoleLog EXCEPT ![i] = Append(@, error)]
    /\ HandlerCatch(i, fr, Rethrow(error), stage)

\* ------------------------------------------------------------------ pipeline actions
\* Mutant: a module-level busy flag makes a qualifying click that arrives
\* while another invocation is in flight wait for it before fetching.
ClickQueued(i) ==
    /\ frame[i].pc = "idle"
    /\ i > 1 => frame[i - 1].pc # "idle"
    /\ \E info \in ClickInfos, tab \in Tabs :
        /\ info.menuItemId = CONTEXT_MENU_ID => HasId(registry, CONTEXT_MENU_ID)
        /\ IF Qualifies(info)
           THEN IF \E j \in Invocations \ {i} :
                      frame[j].pc \notin {"idle", "returned"}
                THEN /\ frame' = [frame EXCEPT ![i] =
                                     [@ EXCEPT !.pc = "queued", !.info = info,
                                               !.tab = tab]]
                     /\ UNCHANGED <<fetchCalls, stages>>
                ELSE /\ frame' = [frame EXCEPT ![i] =
                                     [@ EXCEPT !.pc = "awaitFetch",
                                               !.info = info, !.tab = tab]]
                     /\ fetchCalls' = [fetchCalls EXCEPT ![i] =
                                          Append(@, info.srcUrl)]
                     /\ stages' = Begin(i, "fetch")
           ELSE /\ frame' = [frame EXCEPT ![i] =
                                [@ EXCEPT !.pc = "returned", !.info = info,
                                          !.tab = tab]]
                /\ UNCHANGED <<fetchCalls, stages>>
    /\ UNCHANGED <<consoleLog, downloads, downloadState, notifications,
                   menuVars, pureVars>>

\* Lines 101-108 and 37-40: the listener is called with (info, tab); a
\* qualifying event runs up to the await of fetch(srcUrl).  Invocations are
\* numbered in the order of their click events.
Click(i) ==
    /\ frame[i].pc = "idle"
    /\ i > 1 => frame[i - 1].pc # "idle"
    /\ \E info \in ClickInfos, tab \in Tabs :
        /\ info.menuItemId = CONTEXT_MENU_ID => HasId(registry, CONTEXT_MENU_ID)
        /\ IF Qualifies(info)
           THEN /\ frame' = [frame EXCEPT ![i] =
                                [@ EXCEPT !.pc = "awaitFetch", !.info = info,
                                          !.tab = tab]]
                /\ fetchCalls' = [fetchCalls EXCEPT ![i] = Append(@, info.srcUrl)]
                /\ stages' = Begin(i, "fetch")
           ELSE /\ frame' = [frame EXCEPT ![i] =
                                [@ EXCEPT !.pc = "returned", !.info = info,
                                          !.tab = tab]]
                /\ UNCHANGED <<fetchCalls, stages>>
    /\ UNCHANGED <<consoleLog, downloads, downloadState, notifications, menuVars, pureVars>>

\* Mutant: a rejected fetch is issued once more before the error is thrown.
FetchRejectsRetry(i) ==
    /\ frame[i].pc = "awaitFetch"
    /\ IF Len(fetchCalls[i]) < 2
       THEN /\ fetchCalls' = [fetchCalls EXCEPT ![i] =
                                Append(@, frame[i].info.srcUrl)]
            /\ UNCHANGED <<frame, consoleLog, notifications>>
       ELSE /\ ConvertCatch(i, frame[i], NetworkError, "fetch")
            /\ UNCHANGED fetchCalls
    /\ UNCHANGED <<stages, downloads, downloadState, menuVars, pureVars>>

\* Line 40: the fetch promise rejects (the request could not complete).
FetchRejects(i) ==
    /\ frame[i].pc = "awaitFetch"
    /\ ConvertCatch(i, frame[i], NetworkError, "fetch")
    /\ UNCHANGED <<stages, fetchCalls, downloads, downloadState, menuVars, pureVars>>

\* Mutant: response.blob() is not awaited, so decoding begins while the body
\* is still being read.
FetchResolvesNoAwait(i) ==
    /\ frame[i].pc = "awaitFetch"
    /\ \E response \in Responses(frame[i].info.srcUrl) :
        LET fr == [frame[i] EXCEPT !.response = response] IN
        IF BadStatus(response)
        THEN /\ ConvertCatch(i, fr, StatusError(response), "fetch")
             /\ UNCHANGED stages
        ELSE /\ \E body \in Bodies(response) :
                  frame' = [frame EXCEPT ![i] =
                              [fr EXCEPT !.pc = "awaitCreateImageBitmap",
                                         !.originalBlob = body]]
             /\ stages' = [Complete(Begin(i, "blob"), i, "fetch") EXCEPT
                              ![i].started = Append(@, "decode")]
             /\ UNCHANGED <<consoleLog, notifications>>
    /\ UNCHANGED <<fetchCalls, downloads, downloadState, menuVars, pureVars>>

\* Lines 40-44: the fetch promise resolves with a response; a bad status
\* throws, a good one runs up to the await of response.blob().
FetchResolves(i) ==
    /\ frame[i].pc = "awaitFetch"
    /\ \E response \in Responses(frame[i].info.srcUrl) :
        LET fr == [frame[i] EXCEPT !.response = response] IN
        IF BadStatus(response)
        THEN /\ ConvertCatch(i, fr, StatusError(response), "fetch")
             /\ UNCHANGED stages
        ELSE /\ frame' = [frame EXCEPT ![i] = [fr EXCEPT !.pc = "awaitBlob"]]
             /\ stages' = Complete(Begin(i, "blob"), i, "fetch")
             /\ UNCHANGED <<consoleLog, notifications>>
    /\ UNCHANGED <<fetchCalls, downloads, downloadState, menuVars, pureVars>>

\* Line 44: reading the body fails.
BlobRejects(i) ==
    /\ frame[i].pc = "awaitBlob"
    /\ ConvertCatch(i, frame[i], BodyReadError, "blob")
    /\ UNCHANGED <<stages, fetchCalls, downloads, downloadState, menuVars, pureVars>>

\* Lines 44-47: the body is read; runs up to the await of createImageBitmap.
BlobResolves(i) ==
    /\ frame[i].pc = "awaitBlob"
    /\ \E body \in Bodies(frame[i].response) :
        frame' = [frame EXCEPT ![i] =
                    [@ EXCEPT !.pc = "awaitCreateImageBitmap",
                              !.originalBlob = body]]
    /\ stages' = Complete(Begin(i, "decode"), i, "blob")
    /\ UNCHANGED <<fetchCalls, consoleLog, downloads, downloadState,
                   notifications, menuVars, pureVars>>

\* Mutant: a decode failure is caught locally and an empty bitmap is drawn
\* and encoded instead.
DecodeRejectsFallback(i) ==
    /\ frame[i].pc = "awaitCreateImageBitmap"
    /\ ~frame[i].originalBlob.decodable
    /\ LET bitmap == [width |-> 0, height |-> 0, decodedFrom |-> Unset] IN
        frame' = [frame EXCEPT ![i] =
                    [@ EXCEPT !.pc = "awaitConvertToBlob",
                              !.imageBitmap = bitmap,
                              !.canvas = CreateCanvasFromBitmap(bitmap)]]
    /\ stages' = [stages EXCEPT
                    ![i].started = @ \o <<"composite", "encode">>,
                    ![i].finished = @ \o <<"decode", "composite">>]
    /\ UNCHANGED <<fetchCalls, consoleLog, downloads, downloadState,
                   notifications, menuVars, pureVars>>

\* Line 47: the blob is not a decodable image.
DecodeRejects(i) ==
    /\ frame[i].pc = "awaitCreateImageBitmap"
    /\ ~frame[i].originalBlob.decodable
    /\ ConvertCatch(i, frame[i], DecodeError, "decode")
    /\ UNCHANGED <<stages, fetchCalls, downloads, downloadState, menuVars, pureVars>>

\* Lines 47-53: the bitmap is decoded; createCanvasFromBitmap runs
\* synchronously (and throws when the surface or its context cannot be had),
\* then the code runs up to the await of canvas.convertToBlob.
DecodeResolves(i) ==
    /\ frame[i].pc = "awaitCreateImageBitmap"
    /\ frame[i].originalBlob.decodable
    /\ LET bitmap == CreateImageBitmap(frame[i].originalBlob)
           fr == [frame[i] EXCEPT !.imageBitmap = bitmap]
           begun == Complete(Begin(i, "composite"), i, "decode")
       IN \E surfaceOk \in BOOLEAN :
            IF surfaceOk
            THEN /\ frame' = [frame EXCEPT ![i] =
                                [fr EXCEPT !.pc = "awaitConvertToBlob",
                                           !.canvas = CreateCanvasFromBitmap(bitmap)]]
                 /\ stages' = [Complete(begun, i, "composite") EXCEPT
                                  ![i].started = Append(@, "encode")]
                 /\ UNCHANGED <<consoleLog, notifications>>
            ELSE /\ ConvertCatch(i, fr, CanvasError, "composite")
                 /\ stages' = begun
    /\ UNCHANGED <<fetchCalls, downloads, downloadState, menuVars, pureVars>>

\* Line 53: the PNG encoder fails.
EncodeRejects(i) ==
    /\ frame[i].pc = "awaitConvertToBlob"
    /\ ConvertCatch(i, frame[i], EncodeError, "encode")
    /\ UNCHANGED <<stages, fetchCalls, downloads, downloadState, menuVars, pureVars>>

\* Lines 53, 108-112 and 67-74: convertImageToPngBlob returns the PNG blob,
\* the handler resumes and runs up to the await of blobToDataURL(pngBlob).
EncodeResolves(i) ==
    /\ frame[i].pc = "awaitConvertToBlob"
    /\ frame' = [frame EXCEPT ![i] =
                    [@ EXCEPT !.pc = "awaitBlobToDataURL",
                              !.pngBlob = ConvertToBlob(frame[i].canvas)]]
    /\ stages' = Complete(Begin(i, "dataUrl"), i, "encode")
    /\ UNCHANGED <<fetchCalls, consoleLog, downloads, downloadState,
                   notifications, menuVars, pureVars>>

\* Mutant: the reader has no onerror and no onabort handler, so the promise
\* of blobToDataURL is never settled when the read fails.
ReaderFailsUnhandled(i) ==
    /\ frame[i].pc = "awaitBlobToDataURL"
    /\ frame' = [frame EXCEPT ![i].pc = "awaitsForever"]
    /\ UNCHANGED <<stages, fetchCalls, consoleLog, downloads, downloadState,
                   notifications, menuVars, pureVars>>

\* Lines 71 and 72: the reader reports an error, or the read is aborted; the
\* promise rejects and the catch of the handler runs.
ReaderFails(i) ==
    /\ frame[i].pc = "awaitBlobToDataURL"
    /\ \E error \in {ReaderError, AbortError} :
        HandlerCatch(i, frame[i], error, "dataUrl")
    /\ UNCHANGED <<stages, fetchCalls, consoleLog, downloads, downloadState,
                   menuVars, pureVars>>

\* Lines 70 and 112-121: the reader loads; the handler takes the data URL,
\* generates the filename, calls chrome.downloads.download and returns.
ReaderLoads(i) ==
    /\ frame[i].pc = "awaitBlobToDataURL"
    /\ \E in \in FilenameInputs :
        LET dataUrl == ReadAsDataURL(PngBlobOf(i))
            filename == GeneratePngFilename(in.now, in.k)
        IN downloads' = [downloads EXCEPT ![i] =
                            Append(@, DownloadOptions(dataUrl, filename))]
    /\ downloadState' = [downloadState EXCEPT ![i] = "pending"]
    /\ frame' = [frame EXCEPT ![i].pc = "returned"]
    /\ stages' = Complete(Complete(
                    [stages EXCEPT ![i].started = Append(@, "download")],
                    i, "dataUrl"), i, "download")
    /\ UNCHANGED <<fetchCalls, consoleLog, notifications, menuVars, pureVars>>

\* Mutant: the result of the download call is observed and a failure or a
\* cancelled prompt is reported to the user.
OnDownloadReportAlert(i, report) ==
    /\ notifications' = [notifications EXCEPT ![i] =
            IF report = "complete" THEN @
            ELSE Append(@, ExecuteScriptOptions(frame[i].tab,
                               [name |-> "Error", message |-> report]))]
    /\ UNCHANGED <<frame, stages, fetchCalls, consoleLog, downloads>>

\* Lines 116-120: the call is given no callback and its result is not
\* awaited, so nothing of the extension runs when the download reports.
OnDownloadReport(i, report) ==
    UNCHANGED <<frame, stages, fetchCalls, consoleLog, downloads, notifications>>

\* The download subsystem finishes, fails, or the user cancels the prompt.
DownloadSettles(i) ==
    /\ downloadState[i] = "pending"
    /\ \E report \in DownloadReports :
        /\ downloadState' = [downloadState EXCEPT ![i] = report]
        /\ OnDownloadReport(i, report)
    /\ UNCHANGED <<menuVars, pureVars>>

Next ==
    \E i \in Invocations :
        \/ Click(i)
        \/ FetchRejects(i)
        \/ FetchResolves(i)
        \/ BlobRejects(i)
        \/ BlobResolves(i)
        \/ DecodeRejects(i)
        \/ DecodeResolves(i)
        \/ EncodeRejects(i)
        \/ EncodeResolves(i)
        \/ ReaderFails(i)
        \/ ReaderLoads(i)
        \/ DownloadSettles(i)

Spec == Init /\ [][Next]_vars

\* Every platform operation an invocation waits for eventually completes or
\* fails, and the event loop then runs the continuation.
PlatformSettles(i) ==
    /\ WF_vars(FetchRejects(i) \/ FetchResolves(i))
    /\ WF_vars(BlobRejects(i) \/ BlobResolves(i))
    /\ WF_vars(DecodeRejects(i) \/ DecodeResolves(i))
    /\ WF_vars(EncodeRejects(i) \/ EncodeResolves(i))
    /\ WF_vars(ReaderFails(i) \/ ReaderLoads(i))

\* The steps of the invocations themselves, for clicks in one tab: which tab
\* a click came from and what the download subsystem reports after the
\* handoff have no part in whether an invocation ends.
NextFair ==
    \E i \in Invocations :
        \/ Click(i) /\ frame'[i].tab.id = 7
        \/ FetchRejects(i)
        \/ FetchResolves(i)
        \/ BlobRejects(i)
        \/ BlobResolves(i)
        \/ DecodeRejects(i)
        \/ DecodeResolves(i)
        \/ EncodeRejects(i)
        \/ EncodeResolves(i)
        \/ ReaderFails(i)
        \/ ReaderLoads(i)

SpecFair ==
    Init /\ [][NextFair]_vars /\ \A i \in Invocations : PlatformSettles(i)

\* A locator whose server never answers: the fetch of an invocation for it
\* neither resolves nor rejects.
HungUrl == "https://a.test/photo.jpg"
FetchPending(i) ==
    frame[i].pc = "awaitFetch" /\ frame[i].info.srcUrl # HungUrl

\* The steps of the invocations when the server of HungUrl never answers.
NextHung ==
    \E i \in Invocations :
        \/ Click(i) /\ frame'[i].tab.id = 7
        \/ FetchPending(i) /\ FetchRejects(i)
        \/ FetchPending(i) /\ FetchResolves(i)
        \/ BlobRejects(i)
        \/ BlobResolves(i)
        \/ DecodeRejects(i)
        \/ DecodeResolves(i)
        \/ EncodeRejects(i)
        \/ EncodeResolves(i)
        \/ ReaderFails(i)
        \/ ReaderLoads(i)

\* Every awaited operation settles, except a fetch of HungUrl.
OthersSettle(i) ==
    /\ WF_vars(FetchPending(i) /\ (FetchRejects(i) \/ FetchResolves(i)))
    /\ WF_vars(BlobRejects(i) \/ BlobResolves(i))
    /\ WF_vars(DecodeRejects(i) \/ DecodeResolves(i))
    /\ WF_vars(EncodeRejects(i) \/ EncodeResolves(i))
    /\ WF_vars(ReaderFails(i) \/ ReaderLoads(i))

SpecHung ==
    Init /\ [][NextHung]_vars /\ \A i \in Invocations : OthersSettle(i)

\* ------------------------------------------------------------------ menu actions
\* Lines 137-143: the onInstalled listener calls chrome.contextMenus.create
\* with a callback.  Events are numbered in the order they are delivered.
OnInstalled(k) ==
    /\ installs[k].pc = "idle"
    /\ k > 1 => installs[k - 1].pc # "idle"
    /\ LET made == ContextMenusCreate(registry, MenuEntry) IN
        /\ registry' = made.registry
        /\ installs' = [installs EXCEPT ![k] =
                            [pc |-> "awaitCallback", lastError |-> made.lastError]]
    /\ menuCalls' = Append(menuCalls, [call |-> "create", by |-> k])
    /\ UNCHANGED <<pipelineVars, pureVars>>

\* Lines 143-148: the callback of create.
CreateCallback(k) ==
    /\ installs[k].pc = "awaitCallback"
    /\ IF ShouldUpdate(installs[k].lastError)
       THEN /\ registry' = ContextMenusUpdate(registry, CONTEXT_MENU_ID,
                                              CONTEXT_MENU_TITLE)
            /\ menuCalls' = Append(menuCalls, [call |-> "update", by |-> k])
       ELSE UNCHANGED <<registry, menuCalls>>
    /\ installs' = [installs EXCEPT ![k].pc = "done"]
    /\ UNCHANGED <<pipelineVars, pureVars>>

NextMenu == \E k \in Installs : OnInstalled(k) \/ CreateCallback(k)

SpecMenu == InitMenu /\ [][NextMenu]_vars

\* ------------------------------------------------------------------ generatePngFilename on its own
\* The local calendar dates new Date() is read on: every day of a few years
\* (four-digit years; 2024 is a leap year).
Years == {1970, 2024, 2025, 9999}
IsLeap(year) == year % 4 = 0 /\ (year % 100 # 0 \/ year % 400 = 0)
DaysInMonth(year, month) ==
    IF month = 1 THEN (IF IsLeap(year) THEN 29 ELSE 28)
    ELSE IF month \in {3, 5, 8, 10} THEN 30 ELSE 31
CalendarDates ==
    {c \in [year : Years, month : 0..11, date : 1..31] :
        c.date <= DaysInMonth(c.year, c.month)}

\* Line 113: the handler calls generatePngFilename() while it holds the
\* event's srcUrl; the function reads the clock and draws a random number.
InitFilename ==
    /\ InitPipeline
    /\ registry = <<MenuEntry>>
    /\ canvasCall = NoCall
    /\ filenameCall \in
           [pc : {"called"}, srcUrl : ImageUrls, now : CalendarDates,
            k : RandomDraws]

\* Lines 82-93.
GenerateFilename ==
    /\ filenameCall.pc = "called"
    /\ filenameCall' =
           [pc |-> "returned", srcUrl |-> filenameCall.srcUrl,
            now |-> filenameCall.now, k |-> filenameCall.k,
            result |-> GeneratePngFilename(filenameCall.now, filenameCall.k)]
    /\ UNCHANGED <<pipelineVars, menuVars, canvasCall>>

NextFilename == GenerateFilename

SpecFilename == InitFilename /\ [][NextFilename]_vars

\* ------------------------------------------------------------------ createCanvasFromBitmap on its own
\* Pixels are RGBA samples of 0..255 with straight alpha.
TransparentBlack == [r |-> 0, g |-> 0, b |-> 0, a |-> 0]
OpaqueWhite == [r |-> 255, g |-> 255, b |-> 255, a |-> 255]

\* The pixels a decoded bitmap is made of here: fully transparent (with a
\* colour underneath), half transparent, opaque.
SourcePixels ==
    { [r |-> 255, g |-> 0, b |-> 0, a |-> 0],
      [r |-> 0, g |-> 0, b |-> 255, a |-> 128],
      [r |-> 0, g |-> 128, b |-> 0, a |-> 255] }

Grid(w, h) == (0..(w - 1)) \X (0..(h - 1))

\* The decoded bitmaps of one size: every pixel content.
Bitmaps(w, h) ==
    { [width |-> w, height |-> h, decodedFrom |-> "image", pixels |-> p] :
        p \in [Grid(w, h) -> SourcePixels] }

\* n / d rounded to the nearest integer.
Round(n, d) == (2 * n + d) \div (2 * d)

\* The canvas' default compositing (source-over) of one pixel onto another.
SourceOver(src, dst) ==
    LET under == dst.a * (255 - src.a)
        a == src.a + Round(under, 255)
        Mix(sc, dc) ==
            IF a = 0 THEN 0
            ELSE Round(sc * src.a * 255 + dc * under, 255 * src.a + under)
    IN [r |-> Mix(src.r, dst.r), g |-> Mix(src.g, dst.g),
        b |-> Mix(src.b, dst.b), a |-> a]

\* The colour a fill style paints with.
StyleColour(style) == IF style = "white" THEN OpaqueWhite ELSE TransparentBlack

\* Line 18: new OffscreenCanvas(width, height) is transparent black.
NewOffscreenCanvas(w, h) ==
    [width |-> w, height |-> h, pixels |-> [xy \in Grid(w, h) |-> TransparentBlack]]

\* Lines 25-26: ctx.fillRect(x, y, w, h) with the fill style.
FillRect(surface, style, x, y, w, h) ==
    [surface EXCEPT !.pixels =
        [xy \in DOMAIN surface.pixels |->
            IF /\ xy[1] >= x /\ xy[1] < x + w
               /\ xy[2] >= y /\ xy[2] < y + h
            THEN SourceOver(StyleColour(style), surface.pixels[xy])
            ELSE surface.pixels[xy]]]

\* Line 27: ctx.drawImage(image, dx, dy): the image at its own size.
DrawImage(surface, image, dx, dy) ==
    [surface EXCEPT !.pixels =
        [xy \in DOMAIN surface.pixels |->
            IF <<xy[1] - dx, xy[2] - dy>> \in DOMAIN image.pixels
            THEN SourceOver(image.pixels[<<xy[1] - dx, xy[2] - dy>>],
                            surface.pixels[xy])
            ELSE surface.pixels[xy]]]

\* Lines 18-27: the content of the surface createCanvasFromBitmap returns:
\* allocated, filled over its whole area, then drawn on.
SurfacePixels(canvas) ==
    DrawImage(
        FillRect(NewOffscreenCanvas(canvas.width, canvas.height),
                 canvas.fillStyle, 0, 0, canvas.width, canvas.height),
        canvas.drawn, canvas.at[1], canvas.at[2]).pixels

InitCanvas ==
    /\ InitPipeline
    /\ registry = <<MenuEntry>>
    /\ filenameCall = NoCall
    /\ \E w \in 1..MaxDim, h \in 1..MaxDim :
        canvasCall \in [pc : {"called"}, imgBitmap : Bitmaps(w, h)]

\* Lines 16-30.
CreateCanvas ==
    /\ canvasCall.pc = "called"
    /\ LET canvas == CreateCanvasFromBitmap(canvasCall.imgBitmap) IN
        canvasCall' =
            [pc |-> "returned", imgBitmap |-> canvasCall.imgBitmap,
             canvas |-> canvas, pixels |-> SurfacePixels(canvas)]
    /\ UNCHANGED <<pipelineVars, menuVars, filenameCall>>

NextCanvas == CreateCanvas

SpecCanvas == InitCanvas /\ [][NextCanvas]_vars

\* ------------------------------------------------------------------ properties
Range(q) == {q[n] : n \in 1..Len(q)}
IsPrefix(q, r) == Len(q) <= Len(r) /\ SubSeq(r, 1, Len(q)) = q

\* The invocation was started by a qualifying click, stated on the event.
Entered(i) ==
    /\ frame[i].pc # "idle"
    /\ frame[i].info.menuItemId = "download-image-as-png"
    /\ frame[i].info.srcUrl \notin {Undefined, ""}

\* The filenames generatePngFilename can return in the model.
Filenames == {GeneratePngFilename(now, k) : now \in Clocks, k \in RandomDraws}

\* The error that made stage `stage` of invocation i fail.
TriggeringErrors(i, stage) ==
    CASE stage = "fetch" ->
            IF frame[i].response = Unset
            THEN {NetworkError}
            ELSE {[name |-> "Error",
                   message |-> "Failed to fetch image: "
                                   \o frame[i].response.statusText]}
      [] stage = "blob" -> {BodyReadError}
      [] stage = "decode" -> {DecodeError}
      [] stage = "composite" -> {CanvasError}
      [] stage = "encode" -> {EncodeError}
      [] stage = "dataUrl" ->
            {ReaderError,
             [name |-> "Error",
              message |-> "Blob to Data URL conversion aborted."]}
      [] OTHER -> {}

\* C1: when a qualifying click's fetch returns an ok response and the blob
\* read, decode, composite, PNG encode and data-URL read all succeed, the
\* handler has issued exactly one download call, carrying the data URL of that
\* invocation's PNG blob, a filename of generatePngFilename and saveAs = TRUE,
\* and has issued no notification.
C1_SuccessPath ==
    \A i \in Invocations :
        (Entered(i) /\ "dataUrl" \in Range(stages[i].finished)) =>
            /\ Len(downloads[i]) = 1
            /\ downloads[i][1].url =
                   [scheme |-> "data", mediaType |-> "image/png",
                    base64 |-> frame[i].canvas]
            /\ frame[i].pngBlob.encodes = frame[i].canvas
            /\ frame[i].canvas.drawn.decodedFrom = frame[i].originalBlob
            /\ frame[i].originalBlob.from = frame[i].info.srcUrl
            /\ downloads[i][1].filename \in Filenames
            /\ downloads[i][1].saveAs = TRUE
            /\ DOMAIN downloads[i][1] = {"url", "filename", "saveAs"}
            /\ notifications[i] = <<>>

C1_Witness ==
    \E i \in Invocations :
        /\ "dataUrl" \in Range(stages[i].finished)
        /\ Len(downloads[i]) = 1
        /\ frame[i].response.ok

\* C2: when the fetch of a qualifying click completes with a non-ok status,
\* the pipeline ends Failed at the fetch stage with an error whose message
\* carries the status text, exactly one notification has been issued, no
\* download call, and no stage after fetch has begun.
C2_BadStatus ==
    \A i \in Invocations :
        (Entered(i) /\ frame[i].response # Unset /\ ~frame[i].response.ok) =>
            /\ frame[i].pc = "returned"
            /\ frame[i].failedAt = "fetch"
            /\ frame[i].error =
                   [name |-> "Error",
                    message |-> "Failed to fetch image: "
                                    \o frame[i].response.statusText]
            /\ Len(notifications[i]) = 1
            /\ downloads[i] = <<>>
            /\ downloadState[i] = "none"
            /\ stages[i] = [started |-> <<"fetch">>, finished |-> <<>>]
            /\ frame[i].originalBlob = Unset

C2_Witness ==
    \E i \in Invocations :
        /\ frame[i].response # Unset
        /\ frame[i].response.status = 404
        /\ frame[i].error.message = "Failed to fetch image: Not Found"
        /\ Len(notifications[i]) = 1

\* C3: when the fetched payload of a qualifying click is not a decodable
\* image, the pipeline waits for the decoder and then ends Failed with the
\* decoder's error; no download call is issued and the composite, encode and
\* transport stages never begin.
C3_DecodeFailure ==
    \A i \in Invocations :
        (Entered(i) /\ frame[i].originalBlob # Unset
                    /\ ~frame[i].originalBlob.decodable) =>
            /\ stages[i].started = <<"fetch", "blob", "decode">>
            /\ stages[i].finished = <<"fetch", "blob">>
            /\ downloads[i] = <<>>
            /\ frame[i].canvas = Unset /\ frame[i].pngBlob = Unset
            /\ \/ frame[i].pc = "awaitCreateImageBitmap"
               \/ /\ frame[i].pc = "returned"
                  /\ frame[i].failedAt = "decode"
                  /\ frame[i].error = DecodeError

C3_Witness ==
    \E i \in Invocations :
        /\ frame[i].originalBlob # Unset
        /\ ~frame[i].originalBlob.decodable
        /\ frame[i].failedAt = "decode"
        /\ downloads[i] = <<>>

\* What holds of an invocation whose stage `frame[i].failedAt` failed: nothing
\* after that stage has begun, one alert quoting the triggering error has been
\* injected into the tab of the click, and the invocation has ended.
FailureHandled(i) ==
    /\ frame[i].pc = "returned"
    /\ stages[i].started # <<>>
    /\ stages[i].started[Len(stages[i].started)] = frame[i].failedAt
    /\ IsPrefix(stages[i].started, StageOrder)
    /\ stages[i].finished =
           SubSeq(stages[i].started, 1, Len(stages[i].started) - 1)
    /\ frame[i].error \in TriggeringErrors(i, frame[i].failedAt)
    /\ Len(notifications[i]) = 1
    /\ notifications[i][1] =
           [target |-> [tabId |-> frame[i].tab.id], func |-> "alert",
            args |-> <<"Failed to convert and download image: "
                          \o frame[i].error.message>>]
    /\ downloads[i] = <<>>

\* C4, as stated: whichever stage fails, the download handoff included, the
\* failure is handled as above.  A download the subsystem reports as
\* interrupted is a failed handoff stage.
C4_EveryStageFailureNotified ==
    \A i \in Invocations :
        /\ frame[i].failedAt # "none" => FailureHandled(i)
        /\ downloadState[i] = "interrupted" => Len(notifications[i]) = 1

\* C4, amended: a failure of fetch, blob read, decode, composite, encode or
\* data-URL read is handled as above; a failure the download subsystem
\* reports after the handoff call leaves the invocation without notification
\* and not Failed.
C4_FailureBeforeHandoffNotified ==
    \A i \in Invocations :
        /\ frame[i].failedAt # "none" =>
              /\ FailureHandled(i)
              /\ frame[i].failedAt \in
                    {"fetch", "blob", "decode", "composite", "encode", "dataUrl"}
        /\ downloadState[i] \in {"interrupted", "cancelled"} =>
              /\ notifications[i] = <<>>
              /\ frame[i].failedAt = "none"
              /\ frame[i].error = Unset

C4_Witness ==
    \E i, j \in Invocations :
        /\ frame[i].failedAt = "dataUrl"
        /\ frame[i].error.message = "Blob to Data URL conversion aborted."
        /\ Len(notifications[i]) = 1
        /\ frame[j].failedAt = "composite"
        /\ Len(notifications[j]) = 1

\* C5: a click whose menuItemId is not the registered identifier, or whose
\* srcUrl is missing or empty, returns without any effect: no fetch, no stage,
\* no download call, no notification, no log line; and only an event with the
\* identifier and a srcUrl ever starts a stage.
C5_NonMatchingIgnored ==
    \A i \in Invocations :
        /\ (/\ frame[i].pc # "idle"
            /\ \/ frame[i].info.menuItemId # "download-image-as-png"
               \/ frame[i].info.srcUrl \in {Undefined, ""}) =>
              /\ frame[i] = [IdleFrame EXCEPT !.pc = "returned",
                                              !.info = frame[i].info,
                                              !.tab = frame[i].tab]
              /\ stages[i] = [started |-> <<>>, finished |-> <<>>]
              /\ fetchCalls[i] = <<>>
              /\ consoleLog[i] = <<>>
              /\ downloads[i] = <<>>
              /\ downloadState[i] = "none"
              /\ notifications[i] = <<>>
        /\ (stages[i].started # <<>> \/ fetchCalls[i] # <<>>) =>
              /\ frame[i].info.menuItemId = "download-image-as-png"
              /\ frame[i].info.srcUrl \in ImageUrls

C5_Witness ==
    \E i, j \in Invocations :
        /\ frame[i].pc = "returned"
        /\ frame[i].info.menuItemId = "download-image-as-png"
        /\ frame[i].info.srcUrl = ""
        /\ frame[j].pc = "returned"
        /\ frame[j].info.menuItemId # "download-image-as-png"
        /\ frame[j].info.srcUrl \in ImageUrls
        /\ fetchCalls[i] = <<>> /\ fetchCalls[j] = <<>>

\* C6: within one invocation the stages begin in the order fetch, blob read,
\* decode, composite, encode, data-URL read, download handoff; a stage begins
\* only when every earlier stage has completed, at most one stage is in
\* progress, and a download call is issued only after all of them completed.
C6_StageOrder ==
    \A i \in Invocations :
        /\ IsPrefix(stages[i].started, StageOrder)
        /\ IsPrefix(stages[i].finished, stages[i].started)
        /\ Len(stages[i].started) - Len(stages[i].finished) <= 1
        /\ downloads[i] # <<>> => stages[i].finished = StageOrder
        /\ frame[i].pc = "awaitFetch" => stages[i].started = <<"fetch">>
        /\ frame[i].pc = "awaitBlob" => Len(stages[i].started) = 2
        /\ frame[i].pc = "awaitCreateImageBitmap" => Len(stages[i].started) = 3
        /\ frame[i].pc = "awaitConvertToBlob" => Len(stages[i].started) = 5
        /\ frame[i].pc = "awaitBlobToDataURL" => Len(stages[i].started) = 6

C6_Witness ==
    \E i \in Invocations :
        /\ stages[i].started = StageOrder
        /\ stages[i].finished = StageOrder
        /\ Len(downloads[i]) = 1

\* C7: once the download call has been issued the invocation is over:
\* whatever the download subsystem reports, the invocation has issued no
\* notification, exactly one download call and one fetch, has run each stage
\* once, and its frame stays as the handoff left it.
C7_FireAndForget ==
    \A i \in Invocations :
        downloadState[i] # "none" =>
            /\ frame[i].pc = "returned"
            /\ frame[i].failedAt = "none"
            /\ notifications[i] = <<>>
            /\ consoleLog[i] = <<>>
            /\ Len(downloads[i]) = 1
            /\ Len(fetchCalls[i]) = 1
            /\ stages[i].started = StageOrder

C7_Witness ==
    \E i, j \in Invocations :
        /\ downloadState[i] = "interrupted"
        /\ downloadState[j] = "cancelled"
        /\ notifications[i] = <<>> /\ notifications[j] = <<>>

\* Everything the model keeps for invocation i.
InvocationState(i) ==
    <<frame[i], stages[i], fetchCalls[i], consoleLog[i], downloads[i],
      downloadState[i], notifications[i]>>

\* What invocation i fetched, handed off or reported comes from its own event
\* and its own stage results, and the continuation of an invocation that
\* waits is enabled whatever the other invocations have done.
C8_OwnOutcome ==
    \A i \in Invocations :
        /\ fetchCalls[i] # <<>> => fetchCalls[i] = <<frame[i].info.srcUrl>>
        /\ frame[i].response # Unset =>
              frame[i].response.url = frame[i].info.srcUrl
        /\ downloads[i] # <<>> =>
              /\ Len(downloads[i]) = 1
              /\ downloads[i][1].url.base64 = frame[i].canvas
              /\ downloads[i][1].url.base64.drawn.decodedFrom.from =
                     frame[i].info.srcUrl
        /\ notifications[i] # <<>> =>
              /\ Len(notifications[i]) = 1
              /\ notifications[i][1].target.tabId = frame[i].tab.id
              /\ notifications[i][1].args =
                     <<"Failed to convert and download image: "
                          \o frame[i].error.message>>
              /\ frame[i].error \in TriggeringErrors(i, frame[i].failedAt)
        /\ frame[i].pc = "awaitFetch" => ENABLED FetchResolves(i)
        /\ frame[i].pc = "awaitBlob" => ENABLED BlobResolves(i)
        /\ frame[i].pc = "awaitConvertToBlob" => ENABLED EncodeResolves(i)
        /\ frame[i].pc = "awaitBlobToDataURL" => ENABLED ReaderLoads(i)

\* A step of one invocation leaves every other invocation as it was.
C8_OwnStep ==
    \A i, j \in Invocations :
        (i # j /\ InvocationState(i)' # InvocationState(i)) =>
            InvocationState(j)' = InvocationState(j)

\* C8: overlapping invocations are independent: each step touches one
\* invocation only, each invocation's fetch, download payload and notification
\* derive from its own srcUrl, tab and stage results, and no invocation's
\* progress depends on another's state (so a failure of one neither prevents
\* nor alters the download handoff of another).
C8_Independent == []C8_OwnOutcome /\ [][C8_OwnStep]_vars

C8_Witness ==
    /\ frame[1].failedAt = "encode"
    /\ Len(notifications[1]) = 1
    /\ Len(downloads[2]) = 1
    /\ frame[2].info.srcUrl # frame[1].info.srcUrl
    /\ downloads[2][1].url.base64.drawn.decodedFrom.from = frame[2].info.srcUrl
    /\ notifications[2] = <<>>

\* The fetch of invocation i was rejected: it failed at fetch with no response.
FetchRejected(i) ==
    /\ Entered(i)
    /\ frame[i].failedAt = "fetch"
    /\ frame[i].response = Unset

\* C9, as stated: a rejected fetch fails with the same error kind as a bad
\* status (the Error of line 42, "Failed to fetch image: ..."), the error
\* reaches the handler and produces the notification, and fetch was issued once.
C9_RejectedFetchSameKind ==
    \A i \in Invocations :
        FetchRejected(i) =>
            /\ frame[i].error.name = "Error"
            /\ IsPrefix("Failed to fetch image: ", frame[i].error.message)
            /\ Len(notifications[i]) = 1
            /\ Len(fetchCalls[i]) = 1

\* C9, amended: a rejected fetch fails with the error the fetch promise
\* rejected with, unchanged (the platform's error, not the Error built for a
\* bad status); that error reaches the handler and produces the one
\* notification, no download call is issued and fetch was issued exactly once.
C9_RejectedFetchPropagates ==
    \A i \in Invocations :
        FetchRejected(i) =>
            /\ frame[i].pc = "returned"
            /\ frame[i].error = NetworkError
            /\ consoleLog[i] = <<NetworkError>>
            /\ Len(notifications[i]) = 1
            /\ notifications[i][1].args =
                   <<"Failed to convert and download image: "
                        \o NetworkError.message>>
            /\ fetchCalls[i] = <<frame[i].info.srcUrl>>
            /\ downloads[i] = <<>>
            /\ stages[i] = [started |-> <<"fetch">>, finished |-> <<>>]

C9_Witness ==
    \E i \in Invocations :
        /\ FetchRejected(i)
        /\ frame[i].error.name = "TypeError"
        /\ Len(notifications[i]) = 1
        /\ Len(fetchCalls[i]) = 1

\* The update calls the callback of event k issued.
UpdatesBy(k) ==
    {n \in 1..Len(menuCalls) :
        menuCalls[n].call = "update" /\ menuCalls[n].by = k}

\* C10: after one or more onInstalled events, from a registry with or without
\* the entry, the registry holds exactly one entry: the fixed identifier, the
\* title "Download image as PNG", the context "image".  A create refused
\* because the identifier exists makes the callback update the title (one
\* update call, the listener finishes); a create that succeeds is followed by
\* no update.
C10_IdempotentUpsert ==
    \A k \in Installs :
        /\ installs[k].pc # "idle" =>
              /\ registry =
                     <<[id |-> "download-image-as-png",
                        title |-> "Download image as PNG",
                        contexts |-> <<"image">>]>>
              /\ k > 1 => installs[k].lastError
        /\ installs[k].pc = "awaitCallback" => UpdatesBy(k) = {}
        /\ installs[k].pc = "done" =>
              Cardinality(UpdatesBy(k)) = IF installs[k].lastError THEN 1 ELSE 0

C10_Witness ==
    /\ installs[1].pc = "done" /\ ~installs[1].lastError
    /\ UpdatesBy(1) = {}
    /\ installs[2].pc = "done" /\ installs[2].lastError
    /\ Cardinality(UpdatesBy(2)) = 1
    /\ Len(registry) = 1

\* The decimal digits of n, most significant first, in exactly `width` places.
DigitChars == {"0", "1", "2", "3", "4", "5", "6", "7", "8", "9"}
RECURSIVE Decimal(_, _)
Decimal(n, width) ==
    IF width = 0 THEN ""
    ELSE Decimal(n \div 10, width - 1)
             \o SubSeq("0123456789", (n % 10) + 1, (n % 10) + 1)

\* C11: for every date and every draw r = k / RandDen in [0, 1) the filename
\* is image-YYYYMMDD-RRRRRR.png: "image-", the four-digit year, the month
\* (1-12) and the day in two digits each, "-", the six digits of
\* floor(100000 + r * 900000), which lies in 100000..999999, and ".png"; it
\* is the same whatever srcUrl the click carried.
C11_FilenameShape ==
    filenameCall.pc = "returned" =>
        LET r == filenameCall.result
            now == filenameCall.now
            suffix == (100000 * RandDen + filenameCall.k * 900000) \div RandDen
        IN /\ suffix \in 100000..999999
           /\ r = "image-" \o Decimal(now.year, 4) \o Decimal(now.month + 1, 2)
                    \o Decimal(now.date, 2) \o "-" \o Decimal(suffix, 6)
                    \o ".png"
           /\ Len(r) = 25
           /\ SubSeq(r, 1, 6) = "image-"
           /\ \A n \in (7..14) \cup (16..21) : SubSeq(r, n, n) \in DigitChars
           /\ SubSeq(r, 15, 15) = "-"
           /\ SubSeq(r, 22, 25) = ".png"

C11_Witness ==
    /\ filenameCall.pc = "returned"
    /\ filenameCall.now = [year |-> 2024, month |-> 0, date |-> 5]
    /\ filenameCall.k = 0
    /\ filenameCall.result = "image-20240105-100000.png"

\* C12: the surface createCanvasFromBitmap returns for a w x h bitmap is
\* exactly w x h; every pixel whose source pixel is fully transparent is
\* opaque white (255, 255, 255), every pixel whose source pixel is opaque has
\* the source's colour at the same coordinates (drawn at the origin, neither
\* scaled nor cropped), and no pixel of the surface is left transparent.
C12_WhiteBackground ==
    canvasCall.pc = "returned" =>
        LET bitmap == canvasCall.imgBitmap
            out == canvasCall.pixels
        IN /\ canvasCall.canvas.width = bitmap.width
           /\ canvasCall.canvas.height = bitmap.height
           /\ DOMAIN out =
                  (0..(bitmap.width - 1)) \X (0..(bitmap.height - 1))
           /\ \A xy \in DOMAIN out :
                /\ out[xy].a = 255
                /\ bitmap.pixels[xy].a = 0 =>
                      out[xy] = [r |-> 255, g |-> 255, b |-> 255, a |-> 255]
                /\ bitmap.pixels[xy].a = 255 => out[xy] = bitmap.pixels[xy]

C12_Witness ==
    /\ canvasCall.pc = "returned"
    /\ canvasCall.imgBitmap.width = 2 /\ canvasCall.imgBitmap.height = 1
    /\ canvasCall.imgBitmap.pixels[<<0, 0>>] = [r |-> 255, g |-> 0, b |-> 0, a |-> 0]
    /\ canvasCall.imgBitmap.pixels[<<1, 0>>].a = 255
    /\ canvasCall.pixels[<<0, 0>>] = [r |-> 255, g |-> 255, b |-> 255, a |-> 255]
    /\ canvasCall.pixels[<<1, 0>>] = [r |-> 0, g |-> 128, b |-> 0, a |-> 255]

\* Invocation i has ended with exactly one terminal outcome.
EndedWithOneOutcome(i) ==
    /\ frame[i].pc = "returned"
    /\ \/ Len(downloads[i]) = 1 /\ notifications[i] = <<>>
       \/ Len(notifications[i]) = 1 /\ downloads[i] = <<>>

\* An invocation never has both outcomes, nor one of them twice.
AtMostOneOutcome ==
    \A i \in Invocations :
        /\ Len(downloads[i]) + Len(notifications[i]) <= 1
        /\ frame[i].pc \notin {"idle", "returned"} =>
              downloads[i] = <<>> /\ notifications[i] = <<>>

\* C13: when every platform operation eventually completes or fails, every
\* invocation started by a qualifying click eventually ends having issued
\* exactly one download call or exactly one notification, and never both.
C13_OneTerminalOutcome ==
    /\ []AtMostOneOutcome
    /\ \A i \in Invocations : Entered(i) ~> EndedWithOneOutcome(i)

C13_Witness ==
    /\ Entered(1) /\ EndedWithOneOutcome(1) /\ Len(downloads[1]) = 1
    /\ Entered(2) /\ EndedWithOneOutcome(2) /\ Len(notifications[2]) = 1

\* How many times stage `stage` of invocation i was begun.
TimesBegun(i, stage) ==
    Cardinality({n \in 1..Len(stages[i].started) : stages[i].started[n] = stage})

\* C14: within one invocation fetch, blob read, decode, composite, PNG encode,
\* data-URL read, download call and notification each happen at most once,
\* whatever stage fails; and an error caught inside convertImageToPngBlob is
\* logged and thrown on unchanged, so the error the handler's catch holds and
\* reports is the very error the failing operation raised.
C14_NoRetryNoRecovery ==
    \A i \in Invocations :
        /\ Len(fetchCalls[i]) <= 1
        /\ \A n \in 1..Len(StageOrder) : TimesBegun(i, StageOrder[n]) <= 1
        /\ Len(downloads[i]) <= 1
        /\ Len(notifications[i]) <= 1
        /\ Len(consoleLog[i]) <= 1
        /\ frame[i].failedAt \in {"fetch", "blob", "decode", "composite", "encode"} =>
              /\ consoleLog[i] = <<frame[i].error>>
              /\ consoleLog[i][1] \in TriggeringErrors(i, frame[i].failedAt)
              /\ Len(notifications[i]) = 1
              /\ stages[i].started[Len(stages[i].started)] = frame[i].failedAt
              /\ frame[i].failedAt \notin Range(stages[i].finished)
        /\ frame[i].failedAt = "dataUrl" =>
              /\ consoleLog[i] = <<>>
              /\ frame[i].error \in TriggeringErrors(i, "dataUrl")
              /\ Len(notifications[i]) = 1
              /\ "dataUrl" \notin Range(stages[i].finished)
        /\ frame[i].failedAt = "none" => consoleLog[i] = <<>>

C14_Witness ==
    \E i, j \in Invocations :
        /\ frame[i].failedAt = "encode"
        /\ consoleLog[i] = <<EncodeError>>
        /\ frame[i].error = EncodeError
        /\ Len(fetchCalls[i]) = 1
        /\ frame[j].failedAt = "fetch"
        /\ frame[j].response # Unset
        /\ consoleLog[j] = <<frame[j].error>>

\* The fetch of invocation i is for the locator that never answers.
Hung(i) ==
    /\ frame[i].pc # "idle"
    /\ frame[i].info.menuItemId = "download-image-as-png"
    /\ frame[i].info.srcUrl = "https://a.test/photo.jpg"

\* A hung invocation is waiting for its fetch and has done nothing else.
HungStaysFetching ==
    \A i \in Invocations :
        Hung(i) =>
            /\ frame[i].pc = "awaitFetch"
            /\ stages[i] = [started |-> <<"fetch">>, finished |-> <<>>]
            /\ fetchCalls[i] = <<frame[i].info.srcUrl>>
            /\ downloads[i] = <<>>
            /\ notifications[i] = <<>>
            /\ consoleLog[i] = <<>>

\* An invocation leaves the wait for its fetch only with the fetch's result:
\* a response, or the error the fetch rejected with.
LeavesFetchingBySettling ==
    \A i \in Invocations :
        (frame[i].pc = "awaitFetch" /\ frame'[i].pc # "awaitFetch") =>
            \/ frame'[i].response \in Responses(frame[i].info.srcUrl)
            \/ frame'[i].error = NetworkError /\ frame'[i].failedAt = "fetch"

\* C15: an invocation whose fetch never completes stays in Fetching for ever
\* and issues neither a download call nor a notification (nothing but the
\* settling of the fetch leads out of Fetching), while every other invocation
\* started by a qualifying click, before or after it, still reaches its own
\* terminal outcome.
C15_HungFetchHangsOnlyItself ==
    /\ []HungStaysFetching
    /\ [][LeavesFetchingBySettling]_vars
    /\ \A j \in Invocations :
          (Entered(j) /\ ~Hung(j)) ~> EndedWithOneOutcome(j)

C15_Witness ==
    /\ Hung(1) /\ frame[1].pc = "awaitFetch"
    /\ Entered(2) /\ ~Hung(2)
    /\ EndedWithOneOutcome(2) /\ Len(downloads[2]) = 1

====
